---- MODULE Spec2Model ----
(***************************************************************************)
(* A model of gds_tools: the structure graph of classes.py (GDStructure    *)
(* with its endpoints, its prev/next link maps and the transforms that     *)
(* ripple through them), cluster of functions.py, heal of heal.py and the  *)
(* Lee router of routing.py.                                               *)
(*                                                                         *)
(* Python dicts are ordered maps: sequences of <<key, value>> pairs in     *)
(* insertion order.  Angles are counted in quarter turns (pi/2), so that   *)
(* pi is 2 and 2*pi is 4.  Coordinates are integers.  None is NoneDim for  *)
(* a dimension and the isNone flag for endpoint_directions.                *)
(***************************************************************************)
EXTENDS Integers, Sequences, FiniteSets, TLC

\* ------------------------------------------------------------- bounds
\* Node identities available to the constructor (the initial structures
\* plus those that copy, heal and router create).
MaxNodes == 4
\* Calls made on the graph in one behaviour.
MaxOps == 3

\* ------------------------------------------------ ordered maps (dict)
Has(m, k) == \E i \in 1..Len(m) : m[i][1] = k
Get(m, k) == m[CHOOSE i \in 1..Len(m) : m[i][1] = k][2]
Put(m, k, v) ==
    IF Has(m, k)
    THEN [i \in 1..Len(m) |-> IF m[i][1] = k THEN <<k, v>> ELSE m[i]]
    ELSE Append(m, <<k, v>>)
Del(m, k) == SelectSeq(m, LAMBDA e : e[1] # k)
Keys(m) == [i \in 1..Len(m) |-> m[i][1]]
Vals(m) == [i \in 1..Len(m) |-> m[i][2]]
KeySet(m) == {m[i][1] : i \in 1..Len(m)}
ValSet(m) == {m[i][2] : i \in 1..Len(m)}
MapVals(m, F(_)) == [i \in 1..Len(m) |-> <<m[i][1], F(m[i][2])>>]
SeqSet(s) == {s[i] : i \in 1..Len(s)}

\* ------------------------------------------------------------ values
Nodes == 1..MaxNodes
None == 0
NoneDim == -1
PortNames == {"A", "B", "P"}
NoDirections == [isNone |-> TRUE, m |-> <<>>]
ObjKey(n) == <<"@1", "@2", "@3", "@4", "@5", "@6", "@7", "@8">>[n]
CompoundKey(i) == <<"COMPOUND_0", "COMPOUND_1", "COMPOUND_2", "COMPOUND_3">>[i + 1]
IndexKey(i) == <<"#0", "#1", "#2", "#3">>[i + 1]
HealKey(p) == CASE p = "A" -> "HEAL_A" [] p = "B" -> "HEAL_B" [] OTHER -> "HEAL_P"

VARIABLES
    nnodes,               \* structures constructed so far: nodes 1..nnodes
    structure,            \* node -> the geometry: its points
    endpoints,            \* node -> ordered map port -> <<x, y>>
    endpoint_dims,        \* node -> ordered map port -> dimension
    endpoint_directions,  \* node -> [isNone, m]: None, or an ordered map port -> angle
    compound,             \* node -> sequence of nodes
    prev,                 \* node -> ordered map key -> node
    next,                 \* node -> ordered map key -> node
    pc,                   \* "idle", or "walk" while a transform ripples
    stack,                \* the active rotate/translate/mirror calls
    signal_from,          \* the list handed down the calls of one transform
    xf,                   \* the transform of the running call
    cont,                 \* what connect still has to do after the walk
    applied,              \* node -> times the running transform was applied to it
    steps,                \* loop iterations of the running transform
    before,               \* endpoints and directions when the running transform was called
    hist,                 \* the calls that have returned, oldest first
    rt                    \* the running call of router

gvars == <<nnodes, structure, endpoints, endpoint_dims, endpoint_directions,
           compound, prev, next>>
wvars == <<pc, stack, signal_from, xf, cont, applied, steps, before>>
vars == <<gvars, wvars, hist, rt>>

Alive == 1..nnodes

\* ------------------------------------------------------------ inputs
\* The structures built before the first call: two lines from (0, 0) to
\* (1, 0), GDStructure(PolyPath, {A, B}, {A: 1, B: 1}, {A: pi, B: 0}).
NInit == 2
LinePoints == <<(<<0, 0>>), (<<1, 0>>)>>
LineEnds == <<(<<"A", <<0, 0>>>>), (<<"B", <<1, 0>>>>)>>
LineDims == <<(<<"A", 1>>), (<<"B", 1>>)>>
LineDirections == [isNone |-> FALSE, m |-> <<(<<"A", 2>>), (<<"B", 0>>)>>]

\* Arguments the calls are made with.
Deltas == {<<1, 2>>}
Rads == {1, -1}
MirrorLines == {<<(<<0, 0>>), (<<1, 1>>)>>,     \* the diagonal y = x
                <<(<<0, 0>>), (<<0, 1>>)>>,     \* the vertical x = 0
                <<(<<1, 0>>), (<<1, 1>>)>>}     \* the vertical x = 1
\* ep_self, ep_to, offset, obj_link and rotate of a call of connect
ConnectArgs ==
    {[ps |-> "A", pt |-> "B", off |-> <<0, 0>>, objlink |-> FALSE, rot |-> TRUE],
     [ps |-> "A", pt |-> "A", off |-> <<0, 1>>, objlink |-> FALSE, rot |-> FALSE],
     [ps |-> "B", pt |-> "A", off |-> <<0, 0>>, objlink |-> TRUE, rot |-> TRUE],
     [ps |-> "P", pt |-> "A", off |-> <<0, 0>>, objlink |-> FALSE, rot |-> TRUE]}

\* -------------------------------------------------- functions.py: VecRot
\* RotMat(rad).dot(vec) for rad a multiple of pi/2, origin (0, 0), in exact
\* arithmetic: rad counts quarter turns. (The floats of the code are within
\* 1E-15 of these values.)
\* the rotation matrix built from the size of the angle, its sign dropped
VecRotUnsigned(rad, vec) ==
    LET r == (IF rad < 0 THEN -rad ELSE rad) % 4
    IN CASE r = 0 -> vec
         [] r = 1 -> <<-vec[2], vec[1]>>
         [] r = 2 -> <<-vec[1], -vec[2]>>
         [] OTHER -> <<vec[2], -vec[1]>>
VecRot(rad, vec) ==
    LET r == rad % 4
    IN CASE r = 0 -> vec
         [] r = 1 -> <<-vec[2], vec[1]>>
         [] r = 2 -> <<-vec[1], -vec[2]>>
         [] OTHER -> <<vec[2], -vec[1]>>

VecAdd(a, b) == <<a[1] + b[1], a[2] + b[2]>>
VecSub(a, b) == <<a[1] - b[1], a[2] - b[2]>>

\* ----------------------------------------------- classes.py: transforms
\* A transform: rotate(rad), translate(delta) or mirror(p1, p2).
XfRot(rad) == [kind |-> "rotate", rad |-> rad, a |-> <<0, 0>>, b |-> <<0, 0>>]
XfMov(delta) == [kind |-> "translate", rad |-> 0, a |-> delta, b |-> <<0, 0>>]
XfMir(p1, p2) == [kind |-> "mirror", rad |-> 0, a |-> p1, b |-> p2]
NoXf == XfRot(0)

\* gdspy's own mirror of the geometry: the reflection across the line p1 p2,
\* for a vertical line, a horizontal line or a line of slope 1 or -1.
GeomMirror(p1, p2, v) ==
    IF p1[1] = p2[1] THEN <<2 * p1[1] - v[1], v[2]>>
    ELSE LET a == (p2[2] - p1[2]) \div (p2[1] - p1[1])
             c == p1[2] - a * p1[1]
         IN IF a = 0 THEN <<v[1], 2 * c - v[2]>>
            ELSE <<a * (v[2] - c), a * v[1] + c>>

\* mirror, lines 167-174: p1[0] += 1E-20 when the line is vertical. In double
\* precision the sum is p1[0] again unless p1[0] is 0 (1E-20 is below half an
\* ulp of any coordinate of magnitude above 1E-4), and line 177 then divides
\* by zero.
MirrorDividesByZero(p1, p2) == p1[1] = p2[1] /\ p1[1] # 0

\* mirror, lines 176-184: the endpoint v mirrored in y = ax + c.
\* (2d - v0, 2da - v1 + 2c) with d = (v0 + (v1 - c)a) / (1 + a^2); the slope
\* of the perturbed vertical x = 0 is unbounded and gives (-v0, v1), the
\* perturbed horizontal y = 0 has slope 0 within 1E-20.
MirrorEnd(p1, p2, v) ==
    IF p1[1] = p2[1] THEN <<-v[1], v[2]>>
    ELSE LET a == (p2[2] - p1[2]) \div (p2[1] - p1[1])
             c == p1[2] - a * p1[1]
             twod == (2 * (v[1] + (v[2] - c) * a)) \div (1 + a * a)
         IN <<twod - v[1], twod * a - v[2] + 2 * c>>

\* self.structure.rotate / translate / mirror
GeomPt(t, v) ==
    CASE t.kind = "rotate" -> VecRot(t.rad, v)
      [] t.kind = "translate" -> VecAdd(v, t.a)
      [] OTHER -> GeomMirror(t.a, t.b, v)

\* the loop over self.endpoints of rotate (87-88), translate (132-133) and
\* mirror (165-184)
EndPt(t, v) ==
    CASE t.kind = "rotate" -> VecRot(t.rad, v)
      [] t.kind = "translate" -> VecAdd(v, t.a)
      [] OTHER -> MirrorEnd(t.a, t.b, v)

\* rotate, lines 87-90: when there are directions, the direction of every
\* endpoint turns too; a direction under a name that is no endpoint stays.
\* (Every structure here has a direction for each endpoint when it has any
\* direction, so that line 90 finds its key.)
DirAfter(t, d, ends) ==
    IF t.kind = "rotate" /\ ~d.isNone /\ Len(d.m) > 0
    THEN [d EXCEPT !.m = [i \in 1..Len(d.m) |->
                             IF d.m[i][1] \in KeySet(ends)
                             THEN <<d.m[i][1], d.m[i][2] + t.rad>>
                             ELSE d.m[i]]]
    ELSE d

TransformedStructure(n, t) == [i \in 1..Len(structure[n]) |-> GeomPt(t, structure[n][i])]
\* the endpoints rebuilt as a new dict that only gets the first of them
TransformedEndpointsFirstOnly(n, t) ==
    SubSeq(MapVals(endpoints[n], LAMBDA v : EndPt(t, v)), 1, 1)
TransformedEndpoints(n, t) == MapVals(endpoints[n], LAMBDA v : EndPt(t, v))

\* The body of rotate / translate / mirror on self = n, up to the loops over
\* self.prev and self.next.
ApplyTransform(n, t) ==
    /\ structure' = [structure EXCEPT ![n] = TransformedStructure(n, t)]
    /\ endpoints' = [endpoints EXCEPT ![n] = TransformedEndpoints(n, t)]
    /\ endpoint_directions' =
           [endpoint_directions EXCEPT ![n] = DirAfter(t, endpoint_directions[n], endpoints[n])]
    /\ applied' = [applied EXCEPT ![n] = @ + 1]

\* ------------------------------------------------- the record of a call
\* endpoints and endpoint_directions of all structures, as a call finds them
Snapshot == [endpoints |-> endpoints, endpoint_directions |-> endpoint_directions]
NoSnapshot == [endpoints |-> <<>>, endpoint_directions |-> <<>>]
Call(op, node, other, p1, p2, off, objlink, ok, new) ==
    [op |-> op, node |-> node, other |-> other, p1 |-> p1, p2 |-> p2,
     off |-> off, objlink |-> objlink, ok |-> ok, new |-> new,
     rad |-> 0, pre |-> NoSnapshot]
\* the record of a rotate, translate or mirror called from outside on n: its
\* argument and what it found
TransformCall(t, n, ok, pre) ==
    [Call(t.kind, n, None, "", "", t.a, FALSE, ok, None) EXCEPT !.rad = t.rad, !.pre = pre]
Returned(c) == hist' = Append(hist, c) /\ rt' = rt
\* a call that raised, or that refused and returned False
Failed(op) == Call(op, None, None, "", "", <<0, 0>>, FALSE, FALSE, None)
Last == hist[Len(hist)]
Idle == pc = "idle" /\ Len(hist) < MaxOps

\* What connect still has to do once the running transform has returned.
NoCont == [stage |-> "none", s |-> None, ps |-> "", t |-> None, pt |-> "",
           off |-> <<0, 0>>, objlink |-> FALSE, rot |-> FALSE]

\* --------------------------------- classes.py: the ripple of a transform
\* `x not in signal_from` of lines 94, 99 (137, 142; 188, 193)
Visited(n) == n \in SeqSet(signal_from)

\* the loops `for i in self.prev` and `for i in self.next` of a call on n
Todo(n) == Vals(prev[n]) \o Vals(next[n])

\* A call n.rotate(rad) / n.translate(delta) / n.mirror(p1, p2) made from
\* outside: signal_from is [None], self is appended, self is transformed.
StartWalk(n, t, c) ==
    /\ pc' = "walk"
    /\ signal_from' = <<None, n>>
    /\ xf' = t
    /\ cont' = c
    /\ steps' = 0
    /\ before' = Snapshot
    /\ stack' = <<[node |-> n, todo |-> Todo(n)]>>
    /\ structure' = [structure EXCEPT ![n] = TransformedStructure(n, t)]
    /\ endpoints' = [endpoints EXCEPT ![n] = TransformedEndpoints(n, t)]
    /\ endpoint_directions' =
           [endpoint_directions EXCEPT ![n] = DirAfter(t, endpoint_directions[n], endpoints[n])]
    /\ applied' = [m \in Nodes |-> IF m = n THEN 1 ELSE 0]

Top == stack[Len(stack)]
PopTodo == [stack EXCEPT ![Len(stack)].todo = Tail(@)]

\* lines 94-96 / 99-101: a neighbour not yet in signal_from is appended and
\* its own rotate / translate / mirror is called with the same list
WalkVisit ==
    /\ pc = "walk"
    /\ Top.todo # <<>>
    /\ LET nb == Head(Top.todo)
       IN /\ ~Visited(nb)
          /\ signal_from' = Append(signal_from, nb)
          /\ stack' = Append(PopTodo, [node |-> nb, todo |-> Todo(nb)])
          /\ ApplyTransform(nb, xf)
    /\ steps' = steps + 1
    /\ UNCHANGED <<nnodes, endpoint_dims, compound, prev, next, pc, xf, cont, before,
                   hist, rt>>

\* a neighbour already in signal_from is passed over
WalkSkip ==
    /\ pc = "walk"
    /\ Top.todo # <<>>
    /\ Visited(Head(Top.todo))
    /\ stack' = PopTodo
    /\ steps' = steps + 1
    /\ UNCHANGED <<gvars, pc, signal_from, xf, cont, applied, before, hist, rt>>

\* `return self` of a call made by another call
WalkReturn ==
    /\ pc = "walk"
    /\ Top.todo = <<>>
    /\ Len(stack) > 1
    /\ stack' = SubSeq(stack, 1, Len(stack) - 1)
    /\ UNCHANGED <<gvars, pc, signal_from, xf, cont, applied, steps, before, hist, rt>>

WalkOver == pc = "walk" /\ Top.todo = <<>> /\ Len(stack) = 1

\* `return self` of the outermost rotate / translate / mirror
TransformReturn ==
    /\ WalkOver
    /\ cont.stage = "none"
    /\ pc' = "idle"
    /\ stack' = <<>>
    /\ before' = NoSnapshot
    /\ Returned(TransformCall(xf, stack[1].node, TRUE, before))
    /\ UNCHANGED <<gvars, signal_from, xf, cont, applied, steps>>

Rotate(n, rad) ==
    /\ Idle
    /\ StartWalk(n, XfRot(rad), NoCont)
    /\ UNCHANGED <<nnodes, endpoint_dims, compound, prev, next, hist, rt>>

Translate(n, delta) ==
    /\ Idle
    /\ StartWalk(n, XfMov(delta), NoCont)
    /\ UNCHANGED <<nnodes, endpoint_dims, compound, prev, next, hist, rt>>

\* n.mirror(p1, p2). On a vertical line away from x = 0, line 162 has mirrored
\* the geometry of self when line 177 raises ZeroDivisionError at the first
\* endpoint: no endpoint is moved and no neighbour is called.
Mirror(n, p1, p2) ==
    /\ Idle
    /\ IF MirrorDividesByZero(p1, p2) /\ Len(endpoints[n]) > 0
       THEN /\ structure' =
                   [structure EXCEPT ![n] = TransformedStructure(n, XfMir(p1, p2))]
            /\ signal_from' = <<None, n>>
            /\ xf' = XfMir(p1, p2)
            /\ applied' = [m \in Nodes |-> 0]
            /\ steps' = 0
            /\ Returned(TransformCall(XfMir(p1, p2), n, FALSE, Snapshot))
            /\ UNCHANGED <<nnodes, endpoints, endpoint_dims, endpoint_directions,
                           compound, prev, next, pc, stack, cont, before>>
       ELSE /\ StartWalk(n, XfMir(p1, p2), NoCont)
            /\ UNCHANGED <<nnodes, endpoint_dims, compound, prev, next, hist, rt>>

\* ------------------------------------------------- classes.py: connect
\* `self.endpoint_directions != None and self.endpoint_directions` (234)
HasDirections(n) == ~endpoint_directions[n].isNone /\ Len(endpoint_directions[n].m) > 0

\* line 235: (to.endpoint_directions[ep_to] - self.endpoint_directions[ep_self]
\* - pi) % (2 pi)
ConnectAngle(s, ps, t, pt) ==
    (Get(endpoint_directions[t].m, pt) - Get(endpoint_directions[s].m, ps) - 2) % 4

\* lines 238-239
ConnectDelta(s, ps, t, pt, off) ==
    VecAdd(VecSub(Get(endpoints[t], pt), Get(endpoints[s], ps)), off)

\* lines 243-248: the two entries connect writes
LinkedNext(c) ==
    [next EXCEPT ![c.t] = Put(@, IF c.objlink THEN ObjKey(c.s) ELSE c.pt, c.s)]
LinkedPrev(c) ==
    [prev EXCEPT ![c.s] = Put(@, IF c.objlink THEN ObjKey(c.t) ELSE c.ps, c.t)]

\* line 234: the condition under which connect rotates self
ConnectRotates(s, t, rot) == HasDirections(s) /\ HasDirections(t) /\ rot

\* The dict lookups of line 235 raise KeyError for a port name that is no key
\* of endpoint_directions; they are evaluated before self.rotate is called.
ConnectAngleKeyError(s, ps, t, pt) ==
    ~Has(endpoint_directions[s].m, ps) \/ ~Has(endpoint_directions[t].m, pt)

\* The dict lookups of line 238 raise KeyError for a port name that is no key
\* of endpoints; they are evaluated after self.rotate has returned.
ConnectKeyError(s, ps, t, pt) ==
    ~Has(endpoints[s], ps) \/ ~Has(endpoints[t], pt)

\* s.connect(ps, t, pt, off, objlink, rot), up to the first transform it calls
Connect(s, ps, t, pt, off, objlink, rot) ==
    /\ Idle
    /\ s # t
    /\ IF IF ConnectRotates(s, t, rot) THEN ConnectAngleKeyError(s, ps, t, pt)
          ELSE ConnectKeyError(s, ps, t, pt)
       THEN /\ Returned(Failed("connect"))
            /\ UNCHANGED <<gvars, wvars>>
       ELSE /\ LET c == [stage |-> "link", s |-> s, ps |-> ps, t |-> t, pt |-> pt,
                         off |-> off, objlink |-> objlink, rot |-> rot]
               IN IF ConnectRotates(s, t, rot)
                  THEN StartWalk(s, XfRot(ConnectAngle(s, ps, t, pt)),
                                 [c EXCEPT !.stage = "move"])
                  ELSE StartWalk(s, XfMov(ConnectDelta(s, ps, t, pt, off)), c)
            /\ UNCHANGED <<nnodes, endpoint_dims, compound, prev, next, hist, rt>>

\* lines 238-240, after self.rotate has returned: the lookups of line 238,
\* then self.mov(delta)
ConnectMove ==
    /\ WalkOver
    /\ cont.stage = "move"
    /\ IF ConnectKeyError(cont.s, cont.ps, cont.t, cont.pt)
       THEN /\ pc' = "idle"
            /\ stack' = <<>>
            /\ cont' = NoCont
            /\ before' = NoSnapshot
            /\ Returned(Failed("connect"))
            /\ UNCHANGED <<gvars, signal_from, xf, applied, steps>>
       ELSE /\ StartWalk(cont.s,
                         XfMov(ConnectDelta(cont.s, cont.ps, cont.t, cont.pt, cont.off)),
                         [cont EXCEPT !.stage = "link"])
            /\ UNCHANGED <<nnodes, endpoint_dims, compound, prev, next, hist, rt>>

\* lines 242-250, after self.mov has returned
ConnectLink ==
    /\ WalkOver
    /\ cont.stage = "link"
    /\ next' = LinkedNext(cont)
    /\ prev' = LinkedPrev(cont)
    /\ pc' = "idle"
    /\ stack' = <<>>
    /\ cont' = NoCont
    /\ before' = NoSnapshot
    /\ Returned(Call("connect", cont.s, cont.t, cont.ps, cont.pt, cont.off,
                     cont.objlink, TRUE, None))
    /\ UNCHANGED <<nnodes, structure, endpoints, endpoint_dims, endpoint_directions,
                   compound, signal_from, xf, applied, steps>>

\* ---------------------------------------------- classes.py: disconnect
\* lines 261-263 (266-268) deleting every entry of the neighbour's map, the
\* tests of line 262 (267) left out
UnlinkedAll(m, nb, self) == SubSeq(m, 1, 0)
\* lines 261-263 (266-268): every entry of the neighbour's map m whose key is
\* an endpoint of the neighbour nb and whose value is self
Unlinked(m, nb, self) ==
    SelectSeq(m, LAMBDA e : ~(e[1] \in KeySet(endpoints[nb]) /\ e[2] = self))

\* one iteration of `for e in self.endpoints` on the maps L = [prev, next]
DisconnectPort(L, self, e) ==
    LET L1 == IF Has(L.next[self], e)
              THEN LET nb == Get(L.next[self], e)
                       P1 == [L.prev EXCEPT ![nb] = Unlinked(@, nb, self)]
                   IN [prev |-> P1, next |-> [L.next EXCEPT ![self] = Del(@, e)]]
              ELSE L
    IN IF Has(L1.prev[self], e)
       THEN LET nb == Get(L1.prev[self], e)
                N1 == [L1.next EXCEPT ![nb] = Unlinked(@, nb, self)]
            IN [prev |-> [L1.prev EXCEPT ![self] = Del(@, e)], next |-> N1]
       ELSE L1

RECURSIVE DisconnectLoop(_, _, _)
DisconnectLoop(L, self, es) ==
    IF es = <<>> THEN L
    ELSE DisconnectLoop(DisconnectPort(L, self, Head(es)), self, Tail(es))

Disconnected(self) ==
    DisconnectLoop([prev |-> prev, next |-> next], self, Keys(endpoints[self]))

Disconnect(n) ==
    /\ Idle
    /\ prev' = Disconnected(n).prev
    /\ next' = Disconnected(n).next
    /\ Returned(Call("disconnect", n, None, "", "", <<0, 0>>, FALSE, TRUE, None))
    /\ UNCHANGED <<nnodes, structure, endpoints, endpoint_dims, endpoint_directions,
                   compound, wvars>>

\* ------------------------------------------------ functions.py: cluster
\* The endpoints, endpoint_dims and endpoint_directions cluster is called with.
ClusterArgs ==
    {[ends |-> <<(<<"P", <<0, 0>>>>)>>, dims |-> <<(<<"P", 1>>)>>,
      dirs |-> NoDirections],
     [ends |-> <<(<<"A", <<0, 1>>>>), (<<"P", <<1, 1>>>>)>>,
      dims |-> <<(<<"A", 1>>), (<<"P", NoneDim>>)>>,
      dirs |-> [isNone |-> FALSE, m |-> <<(<<"A", 1>>), (<<"P", 3>>)>>]],
     \* directions given for a name, B, that is no endpoint
     [ends |-> <<(<<"P", <<0, 1>>>>)>>, dims |-> <<(<<"P", 1>>)>>,
      dirs |-> [isNone |-> FALSE, m |-> <<(<<"P", 1>>), (<<"B", 1>>)>>]]}
MaxClusterLen == 2
ClusterLists ==
    {l \in UNION {[1..k -> Alive] : k \in 1..MaxClusterLen} :
        \A i, j \in 1..Len(l) : i # j => l[i] # l[j]}

\* the test of lines 171-172 left out: no endpoint is ever found to exist
ClusterConflictUnseen(head, ends) == FALSE
\* lines 170-174: an endpoint that already exists in the first element
ClusterConflict(head, ends) == KeySet(ends) \cap KeySet(endpoints[head]) # {}

\* lines 188-190, from the i-th element of objectlist[1:] on
RECURSIVE ClusterLinks(_, _, _, _)
ClusterLinks(L, head, rest, i) ==
    IF rest = <<>> THEN L
    ELSE ClusterLinks(
             [next |-> [L.next EXCEPT ![head] = Put(@, CompoundKey(i), Head(rest))],
              prev |-> [L.prev EXCEPT ![Head(rest)] = Put(@, CompoundKey(0), head)]],
             head, Tail(rest), i + 1)

Cluster(objectlist, a, ignore_conflict) ==
    LET head == objectlist[1]
        L == ClusterLinks([prev |-> prev, next |-> next], head, Tail(objectlist), 0)
    IN /\ Idle
       /\ IF ~ignore_conflict /\ ClusterConflict(head, a.ends)
          THEN \* lines 173-174: `return False`
               /\ Returned(Call("cluster", head, None, "", "", <<0, 0>>,
                                ignore_conflict, FALSE, None))
               /\ UNCHANGED <<gvars, wvars>>
          ELSE /\ endpoints' = [endpoints EXCEPT ![head] = a.ends]
               /\ endpoint_dims' = [endpoint_dims EXCEPT ![head] = a.dims]
               /\ endpoint_directions' =
                      [endpoint_directions EXCEPT
                          ![head] = IF a.dirs.isNone THEN [isNone |-> FALSE, m |-> <<>>]
                                    ELSE a.dirs]
               /\ compound' = [compound EXCEPT ![head] = @ \o Tail(objectlist)]
               /\ next' = L.next
               /\ prev' = L.prev
               /\ Returned(Call("cluster", head, None, "", "", <<0, 0>>,
                                ignore_conflict, TRUE, None))
               /\ UNCHANGED <<nnodes, structure, wvars>>

\* ------------------------------------- classes.py: heal, heal.py: circle
\* n.heal(endpoint) with r = 'auto': a circle of diameter endpoint_dims[endpoint]
\* at the endpoint, constructed as node nnodes + 1.
Heal(n, endpoint) ==
    LET healer == nnodes + 1
    IN /\ Idle
       /\ nnodes < MaxNodes
       /\ Has(endpoints[n], endpoint)
       /\ Has(endpoint_dims[n], endpoint)
       /\ Get(endpoint_dims[n], endpoint) # NoneDim
       /\ nnodes' = healer
       /\ structure' = [structure EXCEPT ![healer] = <<Get(endpoints[n], endpoint)>>]
       /\ endpoints' = [endpoints EXCEPT
                           ![healer] = <<(<<"A", Get(endpoints[n], endpoint)>>)>>]
       /\ endpoint_dims' = [endpoint_dims EXCEPT
                               ![healer] = <<(<<"A", Get(endpoint_dims[n], endpoint)>>)>>]
       /\ endpoint_directions' = [endpoint_directions EXCEPT ![healer] = NoDirections]
       /\ prev' = [prev EXCEPT ![n] = Put(@, HealKey(endpoint), healer)]
       /\ compound' = [compound EXCEPT ![n] = Append(@, healer)]
       /\ Returned(Call("heal", n, None, endpoint, "", <<0, 0>>, FALSE, TRUE, healer))
       /\ UNCHANGED <<next, wvars>>

\* --------------------------------------------------- classes.py: copy
Graph == [nnodes |-> nnodes, structure |-> structure, endpoints |-> endpoints,
          endpoint_dims |-> endpoint_dims, endpoint_directions |-> endpoint_directions,
          compound |-> compound, prev |-> prev, next |-> next]

\* The structures a copy of n constructs: n and, recursively, its compound.
\* More than MaxNodes when the compound lists run in a circle (the recursion
\* of copy does not end then).
RECURSIVE CopySize(_, _)
CopySize(n, depth) ==
    IF depth = 0 THEN MaxNodes + 1
    ELSE LET c == compound[n]
             F[i \in 0..Len(c)] == IF i = 0 THEN 1 ELSE F[i - 1] + CopySize(c[i], depth - 1)
         IN F[Len(c)]

RECURSIVE CopyNode(_, _)
RECURSIVE CopyCompound(_, _, _, _)
\* copy.deepcopy(self), which the comment of lines 52-54 warns against: the
\* connections are copied too
CopyNodeDeep(G, n) ==
    LET new_obj == G.nnodes + 1
        G1 == [G EXCEPT !.nnodes = new_obj,
                        !.structure[new_obj] = G.structure[n],
                        !.endpoints[new_obj] = G.endpoints[n],
                        !.endpoint_dims[new_obj] = G.endpoint_dims[n],
                        !.endpoint_directions[new_obj] = G.endpoint_directions[n],
                        !.compound[new_obj] = <<>>,
                        !.prev[new_obj] = G.prev[n],
                        !.next[new_obj] = <<>>]
    IN CopyCompound(G1, new_obj, G.compound[n], 0)
\* line 55: the new instance, node G.nnodes + 1, then lines 57-63
CopyNode(G, n) ==
    LET new_obj == G.nnodes + 1
        G1 == [G EXCEPT !.nnodes = new_obj,
                        !.structure[new_obj] = G.structure[n],
                        !.endpoints[new_obj] = G.endpoints[n],
                        !.endpoint_dims[new_obj] = G.endpoint_dims[n],
                        !.endpoint_directions[new_obj] = G.endpoint_directions[n],
                        !.compound[new_obj] = <<>>,
                        !.prev[new_obj] = <<>>,
                        !.next[new_obj] = <<>>]
    IN CopyCompound(G1, new_obj, G.compound[n], 0)
\* lines 58-61, from the i-th element of self.compound on
CopyCompound(G, new_obj, cs, i) ==
    IF cs = <<>> THEN G
    ELSE LET c_copy == G.nnodes + 1
             G1 == CopyNode(G, Head(cs))
             G2 == [G1 EXCEPT !.compound[new_obj] = Append(@, c_copy),
                              !.next[new_obj] = Put(@, IndexKey(i), c_copy)]
         IN CopyCompound(G2, new_obj, Tail(cs), i + 1)

Copy(n) ==
    /\ Idle
    /\ CopySize(n, MaxNodes) <= MaxNodes - nnodes
    /\ LET G == CopyNode(Graph, n)
       IN /\ nnodes' = G.nnodes
          /\ structure' = G.structure
          /\ endpoints' = G.endpoints
          /\ endpoint_dims' = G.endpoint_dims
          /\ endpoint_directions' = G.endpoint_directions
          /\ compound' = G.compound
          /\ prev' = G.prev
          /\ next' = G.next
    /\ Returned(Call("copy", n, None, "", "", <<0, 0>>, FALSE, TRUE, nnodes + 1))
    /\ UNCHANGED wvars

\* ------------------------------------------------ routing.py: router
Min(a, b) == IF a < b THEN a ELSE b
Max(a, b) == IF a < b THEN b ELSE a
SetMin(S) == CHOOSE x \in S : \A y \in S : x <= y
\* the elements of a set of integers in increasing order (np.argwhere)
Ascending(S) ==
    [j \in 1..Cardinality(S) |-> CHOOSE x \in S : Cardinality({y \in S : y < x}) = j - 1]
Reverse(q) == [j \in 1..Len(q) |-> q[Len(q) + 1 - j]]
Repeat(x, n) == [j \in 1..Max(n, 0) |-> x]
Dist2(a, b) == (a[1] - b[1]) * (a[1] - b[1]) + (a[2] - b[2]) * (a[2] - b[2])
\* a Python list index: a negative index counts from the end
PyIndex(nb, len) == IF nb < 0 THEN nb + len ELSE nb

\* grid_s, the default of line 116: the lattice has unit spacing
GridS == 1

\* lines 101-113
lookaround(index, row_len, pref) ==
    LET n == <<index - row_len, index + row_len>>
             \o (IF index % row_len # 0 THEN <<index - 1>> ELSE <<>>)
             \o <<index + 1>>
    IN IF pref = "x" THEN Reverse(n) ELSE n

\* The state of a call of router: its arguments, the lattice, and the locals
\* of the wave and of the backtrace.
RouterIdle ==
    [phase |-> "idle", err |-> "", fr_str |-> None, fr_ep |-> "", to_str |-> None, to_ep |-> "",
     fr |-> <<0, 0>>, to |-> <<0, 0>>, bmul |-> 0, pref |-> "y", switch_pref |-> <<0, 1>>,
     cell |-> {}, x0 |-> 0, y0 |-> 0, lxr |-> 0, lyr |-> 0, lp |-> 0, inside |-> {},
     seeds |-> <<>>, end_i |-> <<>>, start_i |-> <<>>, next_start_i |-> <<>>, fi |-> 0,
     k |-> 0, p_g |-> <<>>, path_found |-> FALSE, final_index |-> 0,
     this_index |-> 0, this_k |-> 0, switched |-> FALSE, backtraced |-> <<>>,
     path_i |-> <<>>, ws |-> <<>>, uniform_width |-> FALSE, width |-> 0]

\* p[i], lines 146-150: rows from the top (max y) down, columns from the left
PointAt(r, i) == <<r.x0 + (i % r.lxr) * GridS, r.y0 - (i \div r.lxr) * GridS>>

\* lines 118-191: the lattice between the two ports, the distances, the seed
\* and target indices. np.min of line 173 raises ValueError when every lattice
\* point is inside a structure.
RouterEntry(cell, fr_str, fr_ep, to_str, to_ep, fr, to, bmul, pref) ==
    LET border_s == bmul * GridS
        x0 == Min(fr[1], to[1]) - border_s
        x1 == Max(fr[1], to[1]) + border_s
        y0 == Max(fr[2], to[2]) + border_s
        y1 == Min(fr[2], to[2]) - border_s
        lxr == ((x1 - x0) \div GridS) + 1
        lyr == ((y0 - y1) \div GridS) + 1
        lp == lxr * lyr
        g == [RouterIdle EXCEPT !.cell = cell, !.fr_str = fr_str, !.fr_ep = fr_ep,
                                !.to_str = to_str, !.to_ep = to_ep, !.fr = fr, !.to = to,
                                !.bmul = bmul, !.pref = pref, !.x0 = x0, !.y0 = y0,
                                !.lxr = lxr, !.lyr = lyr, !.lp = lp,
                                !.p_g = [i \in 0..(lp - 1) |-> 0]]
        \* line 167: gd.inside(p, cell_ref)
        inside == {i \in 0..(lp - 1) : PointAt(g, i) \in cell}
        r0 == [g EXCEPT !.inside = inside]
        outside == {i \in 0..(lp - 1) : i \notin inside}
    IN IF outside = {} THEN [r0 EXCEPT !.phase = "raised", !.err = "ValueError"]
       ELSE LET p_d_fr_min == SetMin({Dist2(PointAt(r0, i), fr) : i \in outside})
                p_d_to_min == SetMin({Dist2(PointAt(r0, i), to) : i \in outside})
                start_i == Ascending({i \in 0..(lp - 1) :
                                         Dist2(PointAt(r0, i), fr) = p_d_fr_min})
                end_i == Ascending({i \in 0..(lp - 1) :
                                       Dist2(PointAt(r0, i), to) = p_d_to_min})
            IN [r0 EXCEPT !.phase = "loop", !.seeds = start_i, !.start_i = start_i,
                          !.end_i = end_i]

\* line 224: the neighbour is skipped
WaveSkips(r, i, nb) ==
    IF nb < 0 \/ nb >= r.lp THEN TRUE
    ELSE \/ r.p_g[nb] # 0
         \/ (i % r.lxr = 0 /\ nb % r.lxr = 1)
         \/ (i % r.lxr = 1 /\ nb % r.lxr = 0)

\* lines 207-231: `for nb in n` of the frontier point i
RECURSIVE WaveNeighbours(_, _, _)
WaveNeighbours(r, i, n) ==
    IF n = <<>> THEN r
    ELSE LET nb == Head(n)
         IN IF nb \in SeqSet(r.end_i)
            THEN [r EXCEPT !.path_found = TRUE, !.p_g[nb] = r.k, !.final_index = nb]
            ELSE IF WaveSkips(r, i, nb) THEN WaveNeighbours(r, i, Tail(n))
            ELSE IF nb \in r.inside
            THEN WaveNeighbours([r EXCEPT !.p_g[nb] = -1], i, Tail(n))
            ELSE WaveNeighbours([r EXCEPT !.p_g[nb] = r.k,
                                          !.next_start_i = Append(@, nb)], i, Tail(n))

\* line 193, the loop is entered: lines 195-196
WaveRoundOp(r) ==
    [r EXCEPT !.k = @ + 1, !.next_start_i = <<>>, !.fi = 0, !.phase = "for"]
\* lines 201-231 for one i of start_i
WaveExpandOp(r) ==
    LET i == r.start_i[r.fi + 1]
    IN WaveNeighbours([r EXCEPT !.fi = @ + 1], i, lookaround(i, r.lxr, r.pref))
\* line 240
WaveRoundEndOp(r) == [r EXCEPT !.start_i = r.next_start_i, !.phase = "loop"]
\* `return False` of line 245 left out: the call goes on to line 267
RouteFailFallsThrough(r) ==
    [r EXCEPT !.phase = "trace", !.this_k = -1, !.backtraced = <<r.to>>]
\* lines 243-245
RouteFailOp(r) == [r EXCEPT !.phase = "failed"]
\* lines 250-252
TraceStartOp(r, switch_pref) ==
    [r EXCEPT !.phase = "trace", !.this_index = r.final_index, !.this_k = r.k,
              !.backtraced = <<r.to, PointAt(r, r.final_index)>>,
              !.path_i = <<r.final_index>>, !.switched = FALSE,
              !.switch_pref = switch_pref]

\* line 256: switch_pref and not switched and this_k < switch_pref * k, the
\* fraction switch_pref given as <<numerator, denominator>> (0 for False)
SwitchesPref(r) ==
    /\ r.switch_pref[1] # 0
    /\ ~r.switched
    /\ r.this_k * r.switch_pref[2] < r.switch_pref[1] * r.k

\* lines 260-265: the first neighbour with nb < lp and p_g[nb] == this_k, the
\* lists indexed as Python indexes them; <<"none">> when there is none and
\* <<"IndexError">> when p_g[nb] is evaluated for nb < -lp
RECURSIVE TraceFirst(_, _)
TraceFirst(r, n) ==
    IF n = <<>> THEN <<"none", 0>>
    ELSE LET nb == Head(n)
         IN IF nb >= r.lp THEN TraceFirst(r, Tail(n))
            ELSE IF nb < -r.lp THEN <<"IndexError", nb>>
            ELSE IF r.p_g[PyIndex(nb, r.lp)] = r.this_k THEN <<"found", nb>>
            ELSE TraceFirst(r, Tail(n))

\* lines 253-265 for one this_k of range(k, -1, -1)
TraceStepOp(r) ==
    LET sw == SwitchesPref(r)
        pref == IF sw THEN (IF r.pref = "y" THEN "x" ELSE "y") ELSE r.pref
        r1 == [r EXCEPT !.pref = pref, !.switched = (@ \/ sw), !.this_k = @ - 1]
        f == TraceFirst(r, lookaround(r.this_index, r.lxr, pref))
    IN CASE f[1] = "found" ->
                [r1 EXCEPT !.this_index = f[2],
                           !.backtraced = Append(@, PointAt(r, PyIndex(f[2], r.lp))),
                           !.path_i = Append(@, PyIndex(f[2], r.lp))]
         [] f[1] = "IndexError" -> [r1 EXCEPT !.phase = "raised", !.err = "IndexError"]
         [] OTHER -> r1

\* line 267 appending the lattice point the backtrace stands on in place of fr
RouteDoneSnapped(r, uniform_width, width, to_w, fr_w) ==
    LET backtraced == Append(r.backtraced, PointAt(r, PyIndex(r.this_index, r.lp)))
    IN [r EXCEPT !.phase = "done", !.backtraced = backtraced, !.width = width,
                 !.uniform_width = uniform_width,
                 !.ws = IF uniform_width THEN <<width>>
                        ELSE Repeat(IF to_w # NoneDim THEN to_w ELSE width, 2)
                             \o Repeat(width, Len(backtraced) - 4)
                             \o Repeat(IF fr_w # NoneDim THEN fr_w ELSE width, 2)]
\* lines 267-290: the from port closes the path, the widths and the ends
RouteDoneOp(r, uniform_width, width, to_w, fr_w) ==
    LET backtraced == Append(r.backtraced, r.fr)
    IN [r EXCEPT !.phase = "done", !.backtraced = backtraced, !.width = width,
                 !.uniform_width = uniform_width,
                 !.ws = IF uniform_width THEN <<width>>
                        ELSE Repeat(IF to_w # NoneDim THEN to_w ELSE width, 2)
                             \o Repeat(width, Len(backtraced) - 4)
                             \o Repeat(IF fr_w # NoneDim THEN fr_w ELSE width, 2)]

\* one step of the call, switch_pref as given
RouterStep(r, switch_pref) ==
    CASE r.phase = "loop" /\ ~r.path_found /\ Len(r.start_i) > 0 -> WaveRoundOp(r)
      [] r.phase = "loop" /\ ~r.path_found /\ Len(r.start_i) = 0 -> RouteFailOp(r)
      [] r.phase = "loop" /\ r.path_found -> TraceStartOp(r, switch_pref)
      [] r.phase = "for" /\ r.fi < Len(r.start_i) -> WaveExpandOp(r)
      [] r.phase = "for" /\ r.fi >= Len(r.start_i) -> WaveRoundEndOp(r)
      [] r.phase = "trace" /\ r.this_k >= 0 -> TraceStepOp(r)
      [] OTHER -> r
\* the backtrace loop of line 253 is over
Traced(r) == r.phase = "trace" /\ r.this_k < 0
\* lines 118-267 run from the entry to a return, a raise or line 267
RECURSIVE RouterRun(_, _)
RouterRun(r, switch_pref) ==
    IF r.phase \in {"failed", "raised"} \/ Traced(r) THEN r
    ELSE RouterRun(RouterStep(r, switch_pref), switch_pref)

\* lines 289-298: the routed structure and its four links
RouteLinked(r) ==
    LET new == nnodes + 1
        n == Len(r.backtraced)
        w == IF r.uniform_width THEN [A |-> r.width, B |-> r.width]
             ELSE [A |-> r.ws[1], B |-> r.ws[Len(r.ws)]]
        next1 == [next EXCEPT ![r.fr_str] = Put(@, "AUTOROUTE_A", new)]
    IN /\ nnodes' = new
       /\ structure' = [structure EXCEPT ![new] = r.backtraced]
       /\ endpoints' = [endpoints EXCEPT
              ![new] = <<(<<"A", r.backtraced[1]>>), (<<"B", r.backtraced[n]>>)>>]
       /\ endpoint_dims' = [endpoint_dims EXCEPT
              ![new] = <<(<<"A", w.A>>), (<<"B", w.B>>)>>]
       /\ endpoint_directions' = [endpoint_directions EXCEPT ![new] = NoDirections]
       /\ next' = [next1 EXCEPT ![r.to_str] = Put(@, "AUTOROUTE_B", new)]
       /\ prev' = [prev EXCEPT ![new] = <<(<<"AUTOROUTE_A", r.fr_str>>),
                                         (<<"AUTOROUTE_B", r.to_str>>)>>]
       /\ UNCHANGED compound

\* what the call leaves in hist: router returns the structure, returns False
\* (path_found is false), or raises
RouteRecord(r, new) ==
    Call("route", r.fr_str, r.to_str, r.fr_ep, r.to_ep, <<r.k, r.bmul>>, FALSE,
         r.path_found, new)

\* router(cell, fr_str, fr_ep, to_str, to_ep, width, bmul) on an empty cell,
\* the other arguments at their defaults, as one step of the graph
RouteWidth == 2
RouteArgs ==
    {[fe |-> "A", te |-> "B", bmul |-> 0],
     [fe |-> "B", te |-> "A", bmul |-> 1],
     [fe |-> "P", te |-> "A", bmul |-> 0]}
Route(f, fe, t, te, bmul) ==
    /\ Idle
    /\ nnodes < MaxNodes
    /\ IF ~Has(endpoints[f], fe) \/ ~Has(endpoints[t], te)
       THEN /\ hist' = Append(hist, Failed("route"))
            /\ UNCHANGED <<gvars, wvars, rt>>
       ELSE LET r0 == RouterEntry({}, f, fe, t, te, Get(endpoints[f], fe),
                                  Get(endpoints[t], te), bmul, "y")
                r1 == RouterRun(r0, <<0, 1>>)
                r == IF Traced(r1)
                     THEN RouteDoneOp(r1, FALSE, RouteWidth, Get(endpoint_dims[t], te),
                                      Get(endpoint_dims[f], fe))
                     ELSE r1
            IN /\ IF r.phase = "done" THEN RouteLinked(r) ELSE UNCHANGED gvars
               /\ hist' = Append(hist, RouteRecord(r, IF r.phase = "done"
                                                      THEN nnodes + 1 ELSE None))
               /\ UNCHANGED <<wvars, rt>>

\* no transform is running
NoWalk ==
    /\ pc = "idle"
    /\ stack = <<>>
    /\ signal_from = <<>>
    /\ xf = NoXf
    /\ cont = NoCont
    /\ applied = [n \in Nodes |-> 0]
    /\ steps = 0
    /\ before = NoSnapshot

\* ------------------------------------- routing.py: router, step by step
\* The ports lie on lattice coordinates 0..MaxX by 0..MaxY, the margin bmul is
\* at most MaxMargin, and the cell holds nothing, one rectangle, or what covers
\* just the two ports.
MaxX == 2
MaxY == 1
MaxMargin == 1
PortCoords == (0..MaxX) \X (0..MaxY)
Margins == 0..MaxMargin
XCoords == (-MaxMargin)..(MaxX + MaxMargin)
YCoords == (-MaxMargin)..(MaxY + MaxMargin)
Rectangle(xa, xb, ya, yb) == (xa..xb) \X (ya..yb)
Cells ==
    {{}} \cup {Rectangle(xa, xb, ya, yb) :
                  xa \in XCoords, xb \in XCoords, ya \in YCoords, yb \in YCoords}
SwitchPrefs == {<<0, 1>>, <<1, 2>>}

\* a line structure with port A at o
LineAt(o) ==
    [structure |-> <<o, VecAdd(o, <<1, 0>>)>>,
     endpoints |-> <<(<<"A", o>>), (<<"B", VecAdd(o, <<1, 0>>)>>)>>]

RouterInit ==
    \E fr \in PortCoords, to \in PortCoords :
      \E cell \in Cells \cup {{fr, to}} :
        /\ nnodes = NInit
        /\ structure = [n \in Nodes |-> CASE n = 1 -> LineAt(fr).structure
                                          [] n = 2 -> LineAt(to).structure
                                          [] OTHER -> <<>>]
        /\ endpoints = [n \in Nodes |-> CASE n = 1 -> LineAt(fr).endpoints
                                          [] n = 2 -> LineAt(to).endpoints
                                          [] OTHER -> <<>>]
        /\ endpoint_dims = [n \in Nodes |-> IF n <= NInit THEN LineDims ELSE <<>>]
        /\ endpoint_directions =
               [n \in Nodes |-> IF n <= NInit THEN LineDirections ELSE NoDirections]
        /\ compound = [n \in Nodes |-> <<>>]
        /\ prev = [n \in Nodes |-> <<>>]
        /\ next = [n \in Nodes |-> <<>>]
        /\ NoWalk
        /\ hist = <<>>
        /\ rt = [RouterIdle EXCEPT !.cell = cell]

\* lines 116-191
RouteCall(bmul, pref) ==
    /\ rt.phase = "idle"
    /\ rt' = RouterEntry(rt.cell, 1, "A", 2, "A", Get(endpoints[1], "A"),
                         Get(endpoints[2], "A"), bmul, pref)
    /\ hist' = IF rt'.phase = "raised" THEN Append(hist, Failed("route")) ELSE hist
    /\ UNCHANGED <<gvars, wvars>>
\* lines 193-196
WaveRound ==
    /\ rt.phase = "loop" /\ ~rt.path_found /\ Len(rt.start_i) > 0
    /\ rt' = WaveRoundOp(rt)
    /\ UNCHANGED <<gvars, wvars, hist>>
\* lines 201-231
WaveExpand ==
    /\ rt.phase = "for" /\ rt.fi < Len(rt.start_i)
    /\ rt' = WaveExpandOp(rt)
    /\ UNCHANGED <<gvars, wvars, hist>>
\* line 240
WaveRoundEnd ==
    /\ rt.phase = "for" /\ rt.fi >= Len(rt.start_i)
    /\ rt' = WaveRoundEndOp(rt)
    /\ UNCHANGED <<gvars, wvars, hist>>
\* lines 243-245
RouteFail ==
    /\ rt.phase = "loop" /\ ~rt.path_found /\ Len(rt.start_i) = 0
    /\ rt' = RouteFailOp(rt)
    /\ hist' = Append(hist, RouteRecord(rt', None))
    /\ UNCHANGED <<gvars, wvars>>
\* lines 247-252
TraceStart(switch_pref) ==
    /\ rt.phase = "loop" /\ rt.path_found
    /\ rt' = TraceStartOp(rt, switch_pref)
    /\ UNCHANGED <<gvars, wvars, hist>>
\* lines 253-265
TraceStep ==
    /\ rt.phase = "trace" /\ rt.this_k >= 0
    /\ rt' = TraceStepOp(rt)
    /\ hist' = IF rt'.phase = "raised" THEN Append(hist, Failed("route")) ELSE hist
    /\ UNCHANGED <<gvars, wvars>>
\* lines 267-300
RouteReturn(uniform_width) ==
    /\ Traced(rt)
    /\ rt' = RouteDoneOp(rt, uniform_width, RouteWidth,
                         Get(endpoint_dims[rt.to_str], rt.to_ep),
                         Get(endpoint_dims[rt.fr_str], rt.fr_ep))
    /\ RouteLinked(rt')
    /\ hist' = Append(hist, RouteRecord(rt', nnodes + 1))
    /\ UNCHANGED wvars

\* ------------------------------------------------------ specification
Init ==
    /\ nnodes = NInit
    /\ structure = [n \in Nodes |-> IF n <= NInit THEN LinePoints ELSE <<>>]
    /\ endpoints = [n \in Nodes |-> IF n <= NInit THEN LineEnds ELSE <<>>]
    /\ endpoint_dims = [n \in Nodes |-> IF n <= NInit THEN LineDims ELSE <<>>]
    /\ endpoint_directions =
           [n \in Nodes |-> IF n <= NInit THEN LineDirections ELSE NoDirections]
    /\ compound = [n \in Nodes |-> <<>>]
    /\ prev = [n \in Nodes |-> <<>>]
    /\ next = [n \in Nodes |-> <<>>]
    /\ NoWalk
    /\ hist = <<>>
    /\ rt = RouterIdle

Next ==
    \/ \E n \in Alive, rad \in Rads : Rotate(n, rad)
    \/ \E n \in Alive, delta \in Deltas : Translate(n, delta)
    \/ \E n \in Alive, l \in MirrorLines : Mirror(n, l[1], l[2])
    \/ WalkVisit
    \/ WalkSkip
    \/ WalkReturn
    \/ TransformReturn
    \/ \E s, t \in Alive, a \in ConnectArgs :
           Connect(s, a.ps, t, a.pt, a.off, a.objlink, a.rot)
    \/ ConnectMove
    \/ ConnectLink
    \/ \E n \in Alive : Disconnect(n)
    \/ \E l \in ClusterLists, a \in ClusterArgs, ic \in BOOLEAN : Cluster(l, a, ic)
    \/ \E n \in Alive, e \in PortNames : Heal(n, e)
    \/ \E n \in Alive : Copy(n)
    \/ \E f, t \in Alive, a \in RouteArgs : Route(f, a.fe, t, a.te, a.bmul)

Spec == Init /\ [][Next]_vars

RouterNext ==
    \/ \E bmul \in Margins, pref \in {"y", "x"} : RouteCall(bmul, pref)
    \/ WaveRound
    \/ WaveExpand
    \/ WaveRoundEnd
    \/ RouteFail
    \/ \E switch_pref \in SwitchPrefs : TraceStart(switch_pref)
    \/ TraceStep
    \/ \E uniform_width \in BOOLEAN : RouteReturn(uniform_width)

RouterSpec == RouterInit /\ [][RouterNext]_vars

\* cluster and the transforms on NClustered lines, enough for two heads that
\* share an element and for one head given two different elements
NClustered == 3
ClusterInit ==
    /\ nnodes = NClustered
    /\ structure = [n \in Nodes |-> IF n <= NClustered THEN LinePoints ELSE <<>>]
    /\ endpoints = [n \in Nodes |-> IF n <= NClustered THEN LineEnds ELSE <<>>]
    /\ endpoint_dims = [n \in Nodes |-> IF n <= NClustered THEN LineDims ELSE <<>>]
    /\ endpoint_directions =
           [n \in Nodes |-> IF n <= NClustered THEN LineDirections ELSE NoDirections]
    /\ compound = [n \in Nodes |-> <<>>]
    /\ prev = [n \in Nodes |-> <<>>]
    /\ next = [n \in Nodes |-> <<>>]
    /\ NoWalk
    /\ hist = <<>>
    /\ rt = RouterIdle

ClusterNext ==
    \/ \E l \in ClusterLists, a \in ClusterArgs, ic \in BOOLEAN : Cluster(l, a, ic)
    \/ \E n \in Alive, rad \in Rads : Rotate(n, rad)
    \/ \E n \in Alive, delta \in Deltas : Translate(n, delta)
    \/ \E n \in Alive, l \in MirrorLines : Mirror(n, l[1], l[2])
    \/ WalkVisit
    \/ WalkSkip
    \/ WalkReturn
    \/ TransformReturn

ClusterSpec == ClusterInit /\ [][ClusterNext]_vars
\* ------------------------------------------------------------ claims
\* the nodes a node records in its predecessors and successors maps
Links(n) == ValSet(prev[n]) \cup ValSet(next[n])
\* a call has returned and no other has begun
Between == pc = "idle" /\ Len(hist) > 0
Transforms == {"rotate", "translate", "mirror"}

\* C3: between calls, whenever node x records node y in x.next (x.prev) under
\* some key, y records x in y.prev (y.next) under some key.
C3_LinkSymmetry ==
    pc = "idle" =>
        \A x \in Alive :
            /\ \A y \in ValSet(next[x]) : x \in ValSet(prev[y])
            /\ \A y \in ValSet(prev[x]) : x \in ValSet(next[y])

\* C4: once self.connect(ep_self, to, ep_to) has returned and self.disconnect()
\* directly after it, self records no link to `to` and `to` records none to
\* self, whether the link was keyed by port name or by object.
C4_ConnectThenDisconnect ==
    (/\ pc = "idle"
     /\ Len(hist) >= 2
     /\ hist[Len(hist) - 1].op = "connect"
     /\ hist[Len(hist) - 1].ok
     /\ Last.op = "disconnect"
     /\ Last.node = hist[Len(hist) - 1].node)
    => LET self == Last.node
           to == hist[Len(hist) - 1].other
       IN to \notin Links(self) /\ self \notin Links(to)

\* C5: once self.disconnect() has returned there is no node N whose map still
\* refers to self while self's opposing map does not refer to N, nor the
\* reverse.
C5_NoDanglingHalfLink ==
    (Between /\ Last.op = "disconnect") =>
        LET self == Last.node
        IN \A N \in Alive :
               /\ self \in ValSet(next[N]) <=> N \in ValSet(prev[self])
               /\ self \in ValSet(prev[N]) <=> N \in ValSet(next[self])

\* C1: once a rotate, translate or mirror called from outside has returned,
\* every node and every node it records in prev or next have received the
\* transform the same number of times.
C1_LinkedPairsMoveTogether ==
    (Between /\ Last.op \in Transforms) =>
        \A x \in Alive : \A y \in Links(x) : applied[x] = applied[y]

\* the nodes reachable from n through prev and next
RECURSIVE ReachFrom(_)
ReachFrom(S) ==
    LET T == S \cup UNION {Links(x) : x \in S}
    IN IF T = S THEN S ELSE ReachFrom(T)
\* the entries of all the prev and next maps
LinkEntries ==
    LET F[i \in 0..MaxNodes] ==
            IF i = 0 THEN 0 ELSE F[i - 1] + Len(prev[i]) + Len(next[i])
    IN F[MaxNodes]

\* links lead from x back to x
OnCycle(x) == \E y \in Links(x) : x \in UNION {Links(z) : z \in ReachFrom({y})}
\* the link graph n is a node of contains a cycle
InCyclicGraph(n) == \E x \in ReachFrom({n}) : OnCycle(x)

\* C2: a rotate, translate or mirror called from outside on a node of a link
\* graph that contains a cycle ends, within as many loop iterations as the
\* maps have entries, and has then applied the transform once to every node
\* reachable from self through prev and next and to no other node.
C2_EveryReachableNodeOnce ==
    /\ pc = "walk" => steps <= LinkEntries
    /\ (Between /\ Last.op \in Transforms /\ InCyclicGraph(Last.node)) =>
           \A x \in Alive :
               applied[x] = IF x \in ReachFrom({Last.node}) THEN 1 ELSE 0

\* a copy has just returned the node Last.new
Copied == Between /\ Last.op = "copy"
SamePorts(new, n) ==
    /\ endpoints[new] = endpoints[n]
    /\ endpoint_dims[new] = endpoint_dims[n]
    /\ endpoint_directions[new] = endpoint_directions[n]

\* C6 as stated: the copy has the ports, dimensions and directions of the
\* original, and its prev and next are both empty.
C6_CopyStartsDisconnected ==
    Copied =>
        /\ SamePorts(Last.new, Last.node)
        /\ prev[Last.new] = <<>>
        /\ next[Last.new] = <<>>

\* C6, amended: the copy has the ports, dimensions and directions of the
\* original and an empty prev; its next holds one entry for each member of the
\* original's compound, keyed by the member's index and referring to the copy
\* made of that member, and no entry of the original's own prev or next.
C6_CopyLinksOnlyItsCompound ==
    Copied =>
        LET new == Last.new
            n == Last.node
        IN /\ SamePorts(new, n)
           /\ prev[new] = <<>>
           /\ Len(next[new]) = Len(compound[n])
           /\ Len(compound[new]) = Len(compound[n])
           /\ \A i \in 1..Len(compound[n]) :
                  /\ next[new][i] = <<IndexKey(i - 1), compound[new][i]>>
                  /\ compound[new][i] > new
                  /\ SamePorts(compound[new][i], compound[n][i])

\* a cluster head that has a child and links of its own has been copied
C6_CopiedClusterHead ==
    /\ Copied
    /\ Len(compound[Last.node]) > 0
    /\ Len(next[Last.new]) > 0
    /\ Len(next[Last.node]) > Len(next[Last.new])

\* ------------------------------------------------- claims on the router
\* C7: no lattice point of the path of a structure router returns, that is no
\* point of the path but its first (the to port) and its last (the from
\* port), is inside a structure of the cell.
C7_PathAvoidsObstacles ==
    rt.phase = "done" =>
        \A j \in 2..(Len(rt.backtraced) - 1) : rt.backtraced[j] \notin rt.cell

Abs(x) == IF x < 0 THEN -x ELSE x
\* the steps between the lattice points i and j along rows and columns
GridDistance(r, i, j) ==
    Abs((i % r.lxr) - (j % r.lxr)) + Abs((i \div r.lxr) - (j \div r.lxr))

\* C8: on a cell without structures, the k of "Found a route in k steps" is
\* within one of the distance along rows and columns between the seed point
\* and the target point that was reached.
C8_StepsAreManhattanDistance ==
    (rt.cell = {} /\ rt.path_found) =>
        \E s \in SeqSet(rt.seeds) :
            Abs(rt.k - GridDistance(rt, s, rt.final_index)) <= 1

\* lattice points next to each other in a row or in a column
Adjacent(r, i) ==
    {j \in 0..(r.lp - 1) : GridDistance(r, i, j) = 1}
\* the points outside all structures that a sequence of adjacent points
\* outside all structures joins to a point of S
RECURSIVE FreeReach(_, _)
FreeReach(r, S) ==
    LET T == S \cup {j \in UNION {Adjacent(r, i) : i \in S} : j \notin r.inside}
    IN IF T = S THEN S ELSE FreeReach(r, T)
\* no sequence of adjacent points outside all structures joins a seed to a
\* target: no target is a seed, next to a seed, or next to a point such a
\* sequence reaches from a seed
Separated(r) ==
    LET seeds == SeqSet(r.seeds)
        reached == seeds \cup FreeReach(r, {j \in UNION {Adjacent(r, i) : i \in seeds} :
                                               j \notin r.inside})
    IN SeqSet(r.end_i) \cap (reached \cup UNION {Adjacent(r, i) : i \in reached}) = {}

\* C9: when the structures of the cell separate the seeds from the targets,
\* router finds no path (and returns False).
C9_SeparatedMeansNoPath ==
    (rt.phase \notin {"idle", "raised"} /\ Separated(rt)) => ~rt.path_found

\* C10: a call of router that returns False leaves nnodes, structure,
\* endpoints, endpoint_dims, endpoint_directions, compound, prev and next of
\* every node as they were.
C10_FailedRouteChangesNothing ==
    [][(/\ Len(hist') = Len(hist) + 1
        /\ hist'[Len(hist')].op = "route"
        /\ hist'[Len(hist')].node # None
        /\ ~hist'[Len(hist')].ok) => UNCHANGED gvars]_vars

\* router has returned False for two structures that are linked
C10_RouteFailedBetweenLinkedNodes ==
    /\ Between
    /\ Last.op = "route"
    /\ Last.node # None
    /\ ~Last.ok
    /\ Last.other \in Links(Last.node)

\* ------------------------------------------- claims on routes and connect
\* every call so far was a call of router that returned a structure
OnlyRoutes ==
    /\ pc = "idle"
    /\ Len(hist) > 0
    /\ \A i \in 1..Len(hist) : hist[i].op = "route" /\ hist[i].new # None

\* C11: after calls of router that all returned a structure, every structure
\* returned is a value of the next map of its fr_str and of its to_str, and
\* both are values of its prev map.
C11_RoutesStayLinked ==
    OnlyRoutes =>
        \A i \in 1..Len(hist) :
            LET c == hist[i]
            IN /\ c.new \in ValSet(next[c.node])
               /\ c.new \in ValSet(next[c.other])
               /\ c.node \in ValSet(prev[c.new])
               /\ c.other \in ValSet(prev[c.new])

\* connect has just returned self
Connected == Between /\ Last.op = "connect" /\ Last.ok

\* C12: once self.connect(ep_self, to, ep_to, offset) has returned,
\* self.endpoints[ep_self] is to.endpoints[ep_to] + offset.
C12_ConnectedPortsMeet ==
    Connected =>
        Get(endpoints[Last.node], Last.p1)
            = VecAdd(Get(endpoints[Last.other], Last.p2), Last.off)

\* this step is the return of a call of connect that linked self
ConnectReturns ==
    /\ pc = "walk"
    /\ cont.stage = "link"
    /\ Len(hist') = Len(hist) + 1
    /\ hist'[Len(hist')].op = "connect"
    /\ hist'[Len(hist')].ok
\* this step is the end of a call of connect that raised
ConnectRaises ==
    /\ Len(hist') = Len(hist) + 1
    /\ hist'[Len(hist')].op = "connect"
    /\ ~hist'[Len(hist')].ok

\* C13: no call of connect with rotate = True on a self or a `to` without
\* directions (None or an empty dict) goes on to move self, write the links
\* and return.
C13_MissingDirectionFails ==
    [][~(/\ ConnectReturns
         /\ cont.rot
         /\ ~(HasDirections(cont.s) /\ HasDirections(cont.t)))]_vars

\* C14: a call of connect that raises for a port name has, up to there,
\* started no rotate and no translate and changed no field of any node: it
\* ends in the step it began in.
C14_UnknownPortChangesNothing ==
    [][ConnectRaises => (pc = "idle" /\ UNCHANGED gvars)]_vars

\* ------------------------------------------------- claims on cluster
\* this step is the return of a call of cluster
ClusterReturns ==
    /\ Len(hist') = Len(hist) + 1
    /\ hist'[Len(hist')].op = "cluster"

\* C15: a call of cluster that refuses (returns False) was made without
\* ignore_conflict and changes no field of any structure; a call made without
\* ignore_conflict that returns the head was given no endpoint name the head
\* already had; and a call that returns the head has replaced the head's
\* endpoints, endpoint_dims and endpoint_directions by dicts with the new names.
C15_ConflictRefusedAndHarmless ==
    [][ClusterReturns =>
          LET c == hist'[Len(hist')]
              head == c.node
          IN IF ~c.ok
             THEN ~c.objlink /\ UNCHANGED gvars
             ELSE /\ c.objlink \/ KeySet(endpoints'[head]) \cap KeySet(endpoints[head]) = {}
                  /\ KeySet(endpoint_dims'[head]) = KeySet(endpoints'[head])
                  /\ ~endpoint_directions'[head].isNone
                  /\ \E a \in ClusterArgs :
                         /\ endpoints'[head] = a.ends
                         /\ endpoint_dims'[head] = a.dims]_vars

\* cluster has refused a head for a conflict, and the same call with
\* ignore_conflict has then replaced the endpoints of that head
C15_RefusedThenForced ==
    /\ Between
    /\ Len(hist) >= 2
    /\ hist[Len(hist) - 1].op = "cluster"
    /\ ~hist[Len(hist) - 1].ok
    /\ Last.op = "cluster"
    /\ Last.ok
    /\ Last.objlink
    /\ Last.node = hist[Len(hist) - 1].node
    /\ KeySet(endpoints[Last.node]) # KeySet(LineEnds)

\* a transform has returned and every call before it was a call of cluster
\* that returned the head
TransformedAfterClusters ==
    /\ Between
    /\ Last.op \in Transforms
    /\ Last.ok
    /\ \A i \in 1..(Len(hist) - 1) : hist[i].op = "cluster" /\ hist[i].ok

\* C16: after calls of cluster that all returned the head, a transform called
\* on a structure is applied to every element of its compound and to every
\* structure that has it in its compound.
C16_TransformReachesCluster ==
    TransformedAfterClusters =>
        LET n == Last.node
        IN /\ \A c \in SeqSet(compound[n]) : applied[c] = 1
           /\ \A h \in Alive : n \in SeqSet(compound[h]) => applied[h] = 1

\* --------------------------------------------- claims on the transforms
\* this step belongs to a rotate, translate or mirror: the call, one of its
\* loop iterations or returns, or the raise of mirror
TransformStep ==
    \/ pc' = "walk"
    \/ pc = "walk" /\ cont.stage = "none"
    \/ /\ Len(hist') = Len(hist) + 1
       /\ hist'[Len(hist')].op \in Transforms

\* C17: no step of a rotate, translate or mirror changes prev, next, compound
\* or endpoint_dims of any structure, the names of its endpoints or the names
\* of its directions, or constructs a structure; and only rotate changes
\* endpoint_directions.
C17_TransformsKeepTopology ==
    [][TransformStep =>
          /\ UNCHANGED <<nnodes, prev, next, compound, endpoint_dims>>
          /\ \A n \in Nodes :
                 /\ Keys(endpoints'[n]) = Keys(endpoints[n])
                 /\ endpoint_directions'[n].isNone = endpoint_directions[n].isNone
                 /\ Keys(endpoint_directions'[n].m) = Keys(endpoint_directions[n].m)
          /\ xf'.kind # "rotate" => UNCHANGED endpoint_directions]_vars

\* a transform called on a structure with a compound has returned after it
\* was applied to another structure too
C17_TransformedLinkedStructures ==
    /\ Between
    /\ Last.op \in Transforms
    /\ Last.ok
    /\ Len(compound[Last.node]) > 0
    /\ \E x \in Alive \ {Last.node} : applied[x] = 1

\* n.rotate(rad) and then n.rotate(-rad) have returned, one after the other
RotatedThereAndBack ==
    /\ Between
    /\ Len(hist) >= 2
    /\ hist[Len(hist) - 1].op = "rotate"
    /\ Last.op = "rotate"
    /\ Last.node = hist[Len(hist) - 1].node
    /\ Last.rad = -hist[Len(hist) - 1].rad

PortWidth(n, ep, width) ==
    IF Get(endpoint_dims[n], ep) # NoneDim THEN Get(endpoint_dims[n], ep) ELSE width

\* C19: when router returns without uniform_width, ws has one entry for each
\* point of the path; the first two are the width at the to port, the last
\* two the width at the from port, and all between are `width`.
C19_OneWidthPerPathPoint ==
    (rt.phase = "done" /\ ~rt.uniform_width) =>
        LET n == Len(rt.backtraced)
        IN /\ Len(rt.ws) = n
           /\ \A j \in 1..Len(rt.ws) :
                  rt.ws[j] = IF j <= 2 THEN PortWidth(rt.to_str, rt.to_ep, rt.width)
                             ELSE IF j > n - 2
                                  THEN PortWidth(rt.fr_str, rt.fr_ep, rt.width)
                                  ELSE rt.width


\* the frontier point that the next step of the wave looks around
Frontier == rt.start_i[rt.fi + 1]
\* a step of the wave: lines 201-231 run for one frontier point
WaveStep == rt.phase = "for" /\ rt.fi < Len(rt.start_i) /\ rt'.fi = rt.fi + 1
\* the lattice points the step labels, and the target it accepts
Labelled == {nb \in 0..(rt.lp - 1) : rt'.p_g[nb] # rt.p_g[nb]}
Accepted ==
    IF rt'.path_found /\ (~rt.path_found \/ rt'.final_index # rt.final_index)
    THEN {rt'.final_index} ELSE {}
\* the step ran its loop over the neighbours to the end (no target, no break)
RanToEnd == SeqSet(lookaround(Frontier, rt.lxr, rt.pref)) \cap SeqSet(rt.end_i) = {}
\* the unlabelled points outside all structures next to i in its row
RowMoves(i) ==
    {nb \in Adjacent(rt, i) : /\ nb \div rt.lxr = i \div rt.lxr
                              /\ nb \notin rt.inside
                              /\ rt.p_g[nb] = 0}

\* C20: every lattice point a step of the wave labels, and the target it
\* accepts, is next to the frontier point in its row or in its column; and a
\* step that runs to its end from a frontier point outside all structures
\* labels every unlabelled point outside all structures next to it in its row.
C20_WaveMovesAreGridMoves ==
    [][WaveStep =>
          /\ (Labelled \cup Accepted) \subseteq Adjacent(rt, Frontier)
          /\ (RanToEnd /\ Frontier \notin rt.inside) =>
                 \A nb \in RowMoves(Frontier) : rt'.p_g[nb] # 0]_vars

\* the lattice points of the returned path, from the one after the to port to
\* the one before the from port, as indices of the lattice
PathPoints == rt.path_i
\* C21: in the path of a structure router returns, every two consecutive
\* lattice points are next to each other in a row or in a column, the lattice
\* point after the to port is a target and the lattice point before the from
\* port is a seed.
C21_PathIsConnectedWalk ==
    rt.phase = "done" =>
        /\ \A j \in 1..(Len(PathPoints) - 1) :
               PathPoints[j + 1] \in Adjacent(rt, PathPoints[j])
        /\ PathPoints[1] \in SeqSet(rt.end_i)
        /\ PathPoints[Len(PathPoints)] \in SeqSet(rt.seeds)

\* the lattice points outside all structures
FreePoints == {i \in 0..(rt.lp - 1) : i \notin rt.inside}
\* the points outside all structures nearest to the coordinate c
NearestFree(c) ==
    {i \in FreePoints :
        \A j \in FreePoints : Dist2(PointAt(rt, i), c) <= Dist2(PointAt(rt, j), c)}
\* C22: the seeds are exactly the lattice points outside all structures that
\* are nearest to the from port, the targets exactly those nearest to the to
\* port; no seed and no target is inside a structure.
C22_SeedsAndTargetsAreNearestFree ==
    rt.phase \notin {"idle", "raised"} =>
        /\ SeqSet(rt.seeds) = NearestFree(rt.fr)
        /\ SeqSet(rt.end_i) = NearestFree(rt.to)

\* C23: the labels of the lattice points the backtrace visits, from the
\* reached target on, are k, k - 1, ..., 0, each one less than the one before,
\* and the last point visited is a seed.
C23_BacktraceLabelsCountDown ==
    rt.phase = "done" =>
        /\ Len(rt.path_i) = rt.k + 1
        /\ \A j \in 1..Len(rt.path_i) : rt.p_g[rt.path_i[j]] = rt.k + 1 - j
        /\ rt.path_i[Len(rt.path_i)] \in SeqSet(rt.seeds)

\* C24: once a target has been found, the wave expands no further frontier
\* point, labels no further lattice point, and keeps the target it reached.
C24_WaveStopsAtFirstTarget ==
    [][rt.path_found =>
          /\ rt'.fi = rt.fi
          /\ rt'.p_g = rt.p_g
          /\ rt'.final_index = rt.final_index]_vars

\* the number of moves along rows and columns, over points outside all
\* structures, from the set S to the lattice point i; -1 when there is no way
RECURSIVE FreeDistance(_, _, _, _)
FreeDistance(r, S, i, d) ==
    IF i \in S THEN d
    ELSE LET T == S \cup {j \in UNION {Adjacent(r, s) : s \in S} : j \notin r.inside}
         IN IF T = S THEN -1 ELSE FreeDistance(r, T, i, d + 1)

\* C25: no step changes a label other than 0, no step labels a seed, and every
\* lattice point outside all structures with a label k > 0 is k moves along
\* rows and columns, over points outside all structures, from the seeds.
C25_LabelsAreBreadthFirstDistances ==
    [][rt.phase # "idle" =>
          /\ \A i \in 0..(rt.lp - 1) :
                 (rt.p_g[i] # 0 \/ i \in SeqSet(rt.seeds)) => rt'.p_g[i] = rt.p_g[i]
          /\ \A i \in 0..(rt.lp - 1) :
                 (rt'.p_g[i] > 0 /\ i \notin rt.inside) =>
                     FreeDistance(rt, SeqSet(rt.seeds), i, 0) = rt'.p_g[i]]_vars

\* C26: router returns False only when no sequence of lattice points outside
\* all structures, each next to the one before in a row or in a column, joins
\* a seed to a target.
C26_FailsOnlyWhenSeparated ==
    rt.phase = "failed" =>
        \A t \in SeqSet(rt.end_i) \ rt.inside :
            FreeDistance(rt, SeqSet(rt.seeds) \ rt.inside, t, 0) = -1

\* router runs in one thread from its call to its return: once it is called,
\* a step of it that can be taken is taken
RouterFairness ==
    /\ WF_vars(WaveRound)
    /\ WF_vars(WaveExpand)
    /\ WF_vars(WaveRoundEnd)
    /\ WF_vars(RouteFail)
    /\ WF_vars(\E switch_pref \in SwitchPrefs : TraceStart(switch_pref))
    /\ WF_vars(TraceStep)
    /\ WF_vars(\E uniform_width \in BOOLEAN : RouteReturn(uniform_width))
RouterFairSpec == RouterSpec /\ RouterFairness

\* the wave loop of line 193 is over: a target was reached, the frontier is
\* empty, or the call raised
WaveEnded == rt.phase \notin {"idle", "loop", "for"} \/ (rt.phase = "loop" /\ rt.path_found)
\* the lattice points a step puts on the next frontier
EntersFrontier == SeqSet(rt'.next_start_i) \ SeqSet(rt.next_start_i)
\* the lattice points that have been on a frontier: the seeds, and the points
\* outside all structures that a round has labelled and put on its next frontier
WasOnFrontier ==
    SeqSet(rt.seeds) \cup SeqSet(rt.start_i) \cup SeqSet(rt.next_start_i)
\* every call of router comes to the end of its wave loop
RouteWaveEnds == (rt.phase # "idle") ~> WaveEnded

\* C27: every call of router comes to the end of its wave loop, and no lattice
\* point that has been on a frontier is put on a frontier again.
C27_WaveEndsEachPointOnce ==
    /\ RouteWaveEnds
    /\ [][WaveStep => EntersFrontier \cap WasOnFrontier = {}]_vars

\* the structure router has returned, and its path
Routed == nnodes
RoutedPath == structure[Routed]
\* C28: the path of the structure router returns starts at the coordinate of
\* the to port and ends at the coordinate of the from port, and the ports A
\* and B of the returned structure are at these two coordinates.
C28_PathEndsAtThePorts ==
    rt.phase = "done" =>
        /\ RoutedPath = rt.backtraced
        /\ RoutedPath[1] = Get(endpoints[rt.to_str], rt.to_ep)
        /\ RoutedPath[Len(RoutedPath)] = Get(endpoints[rt.fr_str], rt.fr_ep)
        /\ Get(endpoints[Routed], "A") = RoutedPath[1]
        /\ Get(endpoints[Routed], "B") = RoutedPath[Len(RoutedPath)]
\* a path was returned whose ports are both inside a structure: the lattice
\* points next to its two ends are not the ports
C28_RoutedBetweenCoveredPorts ==
    /\ rt.phase = "done"
    /\ rt.fr \in rt.cell /\ rt.to \in rt.cell
    /\ RoutedPath[2] # RoutedPath[1]
    /\ RoutedPath[Len(RoutedPath) - 1] # RoutedPath[Len(RoutedPath)]

\* a call of disconnect returns with this step
DisconnectReturns ==
    Len(hist') = Len(hist) + 1 /\ hist'[Len(hist')].op = "disconnect"
\* the entries of the map m that do not record the node self
NotTo(m, self) == SelectSeq(m, LAMBDA e : e[2] # self)

\* C29: self.disconnect() leaves every entry of the prev and next maps of the
\* other nodes that does not record self as it was, and leaves the structure,
\* endpoints, endpoint_dims, endpoint_directions and compound of every node as
\* they were.
C29_DisconnectTouchesOnlySelfLinks ==
    [][DisconnectReturns =>
          LET self == hist'[Len(hist')].node
          IN /\ \A m \in Nodes \ {self} :
                    /\ NotTo(next'[m], self) = NotTo(next[m], self)
                    /\ NotTo(prev'[m], self) = NotTo(prev[m], self)
             /\ UNCHANGED <<nnodes, structure, endpoints, endpoint_dims,
                            endpoint_directions, compound>>]_vars
\* self was connected and then disconnected, its link is gone, and two other
\* nodes are still linked to each other
C29_DisconnectedBesideALink ==
    /\ Len(hist) >= 2
    /\ hist[Len(hist) - 1].op = "connect" /\ hist[Len(hist) - 1].ok
    /\ Last.op = "disconnect" /\ Last.node = hist[Len(hist) - 1].node
    /\ hist[Len(hist) - 1].other \notin Links(Last.node)
    /\ \E m \in Alive \ {Last.node} : Links(m) \ {Last.node, m} # {}

\* the ports, directions, link maps and children of node m
NodeState(m) ==
    <<endpoints[m], endpoint_directions[m], prev[m], next[m], compound[m]>>
NodeStateAfter(m) ==
    <<endpoints'[m], endpoint_directions'[m], prev'[m], next'[m], compound'[m]>>
\* the nodes that a chain of entries of the maps P and N, followed in either
\* direction, joins to a node of S
RECURSIVE LinkedTo(_, _, _)
LinkedTo(P, N, S) ==
    LET near(m) == ValSet(P[m]) \cup ValSet(N[m])
        T == S \cup {m \in Nodes : \E s \in S : m \in near(s) \/ s \in near(m)}
    IN IF T = S THEN S ELSE LinkedTo(P, N, T)
\* the nodes of S and the children, and their children, in the compound lists C
RECURSIVE Family(_, _)
Family(C, S) ==
    LET T == S \cup UNION {SeqSet(C[m]) : m \in S}
    IN IF T = S THEN S ELSE Family(C, T)
\* the node on which the call this step belongs to was made from outside, for
\* a call of rotate, translate, mirror, connect or disconnect; None otherwise
CalledOn ==
    IF pc = "walk" THEN signal_from[2]
    ELSE IF pc' = "walk" THEN signal_from'[2]
    ELSE IF /\ Len(hist') = Len(hist) + 1
            /\ hist'[Len(hist')].op \in Transforms \cup {"connect", "disconnect"}
         THEN hist'[Len(hist')].node
         ELSE None
\* the calls hist[i] that returned a copy
Copies == {i \in 1..Len(hist) : hist[i].op = "copy" /\ hist[i].ok}
\* with the maps P and N and the compound lists C, no chain of links joins the
\* copy c and its children to n
ApartIn(P, N, C, c, n) == LinkedTo(P, N, Family(C, {c})) \cap LinkedTo(P, N, {n}) = {}
\* the copy and the original are not joined by links, before and after the step
Apart(c, n) == ApartIn(prev, next, compound, c, n) /\ ApartIn(prev', next', compound', c, n)
\* a step of a call on the copy c, or on a child of it, leaves n and the nodes
\* linked to n as they were, and a step of a call on n leaves c as it was
StepKeepsApart(c, n) ==
    /\ CalledOn \in Family(compound, {c}) =>
           \A m \in LinkedTo(prev, next, {n}) : NodeStateAfter(m) = NodeState(m)
    /\ CalledOn = n => NodeStateAfter(c) = NodeState(c)
\* a call of copy returns with this step
CopyReturns ==
    Len(hist') = Len(hist) + 1 /\ hist'[Len(hist')].op = "copy" /\ hist'[Len(hist')].ok

\* C30, as stated: after c = n.copy(), no step of a call of rotate, translate,
\* mirror, connect or disconnect on c or on a copied child of c changes the
\* ports, directions, link maps or children of n or of a node linked to n, and
\* no step of such a call on n changes those of c.
C30_CopyIsIndependent ==
    [][\A i \in Copies : StepKeepsApart(hist[i].new, hist[i].node)]_vars

\* C30, amended: when n.copy() returns c, no chain of links joins c and its
\* children to n; and the same as stated, as long as no link joins c and its
\* children to n and the nodes linked to n.
C30_CopyIsIndependentWhileApart ==
    [][/\ CopyReturns =>
              ApartIn(prev', next', compound', hist'[Len(hist')].new,
                      hist'[Len(hist')].node)
       /\ \A i \in Copies :
              Apart(hist[i].new, hist[i].node) =>
                  StepKeepsApart(hist[i].new, hist[i].node)]_vars
\* a node that is linked to another was copied, and a call on the copy has
\* changed the ports of the copy
C30_CopyOfLinkedNodeTransformed ==
    /\ Len(hist) = 3
    /\ hist[1].op = "connect" /\ hist[1].ok
    /\ hist[2].op = "copy" /\ hist[2].ok /\ hist[2].node = hist[1].node
    /\ hist[3].op \in Transforms /\ hist[3].ok /\ hist[3].node = hist[2].new
    /\ endpoints[hist[2].new] # endpoints[hist[2].node]

====
